---- MODULE Spec2Model ----
(***************************************************************************)
(* polyhedge, packages/python: the barrier pricing engine, the             *)
(* inefficiency detector, the Kelly position sizer, the strategy scanner   *)
(* (hedge calculator, grouper, constructor, the pass of scan_and_deploy    *)
(* for one asset) and the Monte Carlo simulation of the hedged PNL, as     *)
(* state machines whose initial states draw the arguments of one call and  *)
(* whose actions run the called function or the steps of the caller.       *)
(*                                                                         *)
(* Python floats are modelled as fixed-point decimals: the integer x       *)
(* stands for the number x / Scale, and every product and quotient is      *)
(* truncated towards minus infinity at that resolution.  In the pricing    *)
(* engine the prices of the underlying (S0, H) and day counts are plain    *)
(* integers; in the simulation the prices are fixed-point numbers too.     *)
(***************************************************************************)
EXTENDS Integers, Sequences, FiniteSets, TLC

VARIABLES
    args,    \* the arguments of the call under way (a record, args.op names the function)
    pc,      \* where the call stands: "start", "loop" (inside a for loop), "step" (inside
             \* the inner loop of simulate_hedged_pnl), "done", "raised"
    ret,     \* the value returned, or the name of the exception raised
    sigma,   \* calculate_implied_volatility: the local sigma
    iter,    \* calculate_implied_volatility: the loop index i of the next pass
    sim      \* simulate_hedged_pnl: its locals, and numpy's global random generator

vars == <<args, pc, ret, sigma, iter, sim>>

-----------------------------------------------------------------------------
(* Fixed-point arithmetic                                                  *)

Scale == 10 * 1000

Abs(x) == IF x < 0 THEN -x ELSE x
Min(a, b) == IF b < a THEN b ELSE a
Max(a, b) == IF b > a THEN b ELSE a

\* floor(a * b / Scale), exact, without forming a * b
MulFx(a, b) ==
    LET ah == a \div Scale
        al == a % Scale
        bh == b \div Scale
        bl == b % Scale
    IN  ah * bh * Scale + ah * bl + al * bh + (al * bl) \div Scale

\* floor(r * 10^k / b) for 0 <= r < b, digit by digit
RECURSIVE FracDigits(_, _, _)
FracDigits(r, b, k) ==
    IF k = 0 THEN 0
    ELSE LET d == (r * 10) \div b
             rest == (r * 10) % b
         IN  d * (10 ^ (k - 1)) + FracDigits(rest, b, k - 1)

\* floor(a * Scale / b) for b > 0, exact, without forming a * Scale
DivPos(a, b) == (a \div b) * Scale + FracDigits(a % b, b, 4)

\* a / b at the model's resolution, b # 0
DivFx(a, b) == IF b > 0 THEN DivPos(a, b) ELSE DivPos(-a, -b)

\* np.sqrt: the largest y with y * y <= x * Scale
RECURSIVE SqrtSearch(_, _, _)
SqrtSearch(n, lo, hi) ==
    IF lo >= hi THEN lo
    ELSE LET mid == (lo + hi + 1) \div 2
         IN  IF mid * mid <= n THEN SqrtSearch(n, mid, hi)
             ELSE SqrtSearch(n, lo, mid - 1)

Sqrt(x) == SqrtSearch(x * Scale, 0, 46340)

\* np.exp on [0, 1): the Taylor series, term k+1 = term k * f / (k+1)
RECURSIVE ExpSeries(_, _, _)
ExpSeries(f, term, k) ==
    IF term = 0 \/ k > 12 THEN 0
    ELSE term + ExpSeries(f, MulFx(term, f) \div k, k + 1)

RECURSIVE ExpInt(_, _)
ExpInt(n, acc) ==
    IF n = 0 THEN acc
    ELSE IF n > 0 THEN ExpInt(n - 1, MulFx(acc, 27183))
    ELSE ExpInt(n + 1, DivFx(acc, 27183))

\* np.exp: e^floor(x) * exp(frac(x)), e = 2.7183
Exp(x) == ExpInt(x \div Scale, ExpSeries(x % Scale, Scale, 1))

\* np.log: ln 2 = 0.6931 per halving, then 2 * atanh((x - 1) / (x + 1)) on [1, 2)
RECURSIVE AtanhSeries(_, _, _)
AtanhSeries(z2, term, k) ==
    IF term = 0 \/ k > 15 THEN 0
    ELSE term \div k + AtanhSeries(z2, MulFx(term, z2), k + 2)

Atanh2(z) == 2 * AtanhSeries(MulFx(z, z), z, 1)

RECURSIVE LnUp(_)
LnUp(x) ==
    IF x >= 2 * Scale THEN 6931 + LnUp(x \div 2)
    ELSE Atanh2(DivFx(x - Scale, x + Scale))

\* np.log, x > 0
Ln(x) == IF x >= Scale THEN LnUp(x) ELSE -LnUp(DivFx(Scale, x))

\* scipy.stats.norm.cdf: Abramowitz and Stegun 26.2.17 for x >= 0, symmetry below;
\* 1 / sqrt(2 pi) = 0.3989
NormPoly(t) ==
    MulFx(t, 3194 + MulFx(t, -3566 + MulFx(t, 17815 + MulFx(t, -18213 + MulFx(t, 13303)))))

NormTail(x) ==
    MulFx(MulFx(3989, Exp(-(MulFx(x, x) \div 2))),
          NormPoly(DivFx(Scale, Scale + MulFx(2316, x))))

NormCdf(x) ==
    IF x >= 6 * Scale THEN Scale
    ELSE IF x <= -6 * Scale THEN 0
    ELSE IF x >= 0 THEN Scale - NormTail(x)
    ELSE NormTail(-x)

-----------------------------------------------------------------------------
(* Python values and exceptions                                            *)

Value(v) == [exc |-> "none", val |-> v]
Raise(e) == [exc |-> e, val |-> 0]

\* The locals of simulate_hedged_pnl before any call of it
NoSim ==
    [run |-> 0, rng |-> 0, path |-> 0, step |-> 0, St |-> 0, max_price |-> 0,
     hedge_position |-> 0, cumulative_fees |-> 0, rebalance_count |-> 0,
     results |-> <<>>, first |-> <<>>]

-----------------------------------------------------------------------------
(* pricing/theoretical_engine.py, analysis/verify_math.py                  *)

\* TheoreticalPricingEngine.__init__: risk_free_rate
risk_free_rate == 0

\* The two terms of the formula, for the locals b, nu and sqrt_T.  For T = 0,
\* numpy's division -b / (sigma * 0.0) is -inf, norm.cdf(-inf) is 0 and both
\* terms vanish.  The exponent -2 nu b / sigma^2 is divided by sigma twice,
\* which keeps the resolution for small sigma.
HitTerms(b, nu, sqrt_T, sig) ==
    IF sqrt_T = 0 THEN Value(0)
    ELSE LET z == DivFx(-b, MulFx(sig, sqrt_T))
             drift == MulFx(nu, sqrt_T)
         IN  Value(NormCdf(z + drift)
                   + MulFx(Exp(DivFx(DivFx(MulFx(-2 * nu, b), sig), sig)),
                           NormCdf(z - drift)))

\* The formula shared by the two copies of barrier_hit_probability, S0 < H.
\* Python's float division (mu - r) / sigma raises for sigma = 0.
HitFormula(r, S0, H, T, sig, mu) ==
    IF sig = 0 THEN Raise("ZeroDivisionError")
    ELSE HitTerms(Ln(DivFx(H, S0)), DivFx(mu - r, sig) - sig \div 2, Sqrt(T), sig)

barrier_hit_probability_unguarded(r, S0, H, T, sig, mu) == HitFormula(r, S0, H, T, sig, mu)

\* TheoreticalPricingEngine.barrier_hit_probability, r = self.r
barrier_hit_probability(r, S0, H, T, sig, mu) ==
    IF S0 >= H THEN Value(Scale) ELSE HitFormula(r, S0, H, T, sig, mu)

\* verify_math.barrier_hit_probability (module level, r an argument)
vm_barrier_hit_probability(S0, H, T, sig, r, mu) ==
    IF S0 >= H THEN Value(Scale) ELSE HitFormula(r, S0, H, T, sig, mu)

\* calculate_delta, for the values of its locals p_up and p_down
DeltaOf(p_up, p_down, epsilon) ==
    IF p_up.exc # "none" THEN p_up
    ELSE IF p_down.exc # "none" THEN p_down
    ELSE Value((p_up.val - p_down.val) \div (2 * epsilon))

\* TheoreticalPricingEngine.calculate_delta, epsilon a whole number of dollars
calculate_delta(r, S0, H, T, sig, epsilon) ==
    DeltaOf(barrier_hit_probability(r, S0 + epsilon, H, T, sig, 0),
            barrier_hit_probability(r, S0 - epsilon, H, T, sig, 0), epsilon)

\* price_market, for the values of its locals T, p_theory and delta
PricedMarket(asset, current_price, target_price, days_to_expiry, volatility, T, p_theory, delta) ==
    IF p_theory.exc # "none" THEN p_theory
    ELSE IF delta.exc # "none" THEN delta
    ELSE Value([asset |-> asset,
                current_price |-> current_price,
                target_price |-> target_price,
                days_to_expiry |-> days_to_expiry,
                volatility |-> volatility,
                theoretical_price |-> p_theory.val,
                delta |-> delta.val,
                time_to_expiry |-> T])

\* price_market after T = days_to_expiry / 365.0
PriceAt(r, asset, current_price, target_price, days_to_expiry, volatility, T) ==
    PricedMarket(asset, current_price, target_price, days_to_expiry, volatility, T,
                 barrier_hit_probability(r, current_price, target_price, T, volatility, 0),
                 calculate_delta(r, current_price, target_price, T, volatility, 1))

\* TheoreticalPricingEngine.price_market
price_market(r, asset, current_price, target_price, days_to_expiry, volatility) ==
    PriceAt(r, asset, current_price, target_price, days_to_expiry, volatility,
            DivFx(days_to_expiry, 365))

\* dict.update: the keys of both, the values of upd where it has the key
DictUpdate(d, upd) ==
    [k \in DOMAIN d \cup DOMAIN upd |-> IF k \in DOMAIN upd THEN upd[k] ELSE d[k]]

PricingKeys == {"asset", "current_price", "target_price", "days_to_expiry", "volatility"}

\* market.copy() updated with the result of price_market, unless it raised
WithPricing(market, result) ==
    IF result.exc # "none" THEN result ELSE Value(DictUpdate(market, result.val))

\* One pass of the loop of batch_price_markets: the record priced, or the
\* exception the try block caught (KeyError for a missing key).
PriceOne(r, market) ==
    IF ~(PricingKeys \subseteq DOMAIN market) THEN Raise("KeyError")
    ELSE WithPricing(market,
                     price_market(r, market["asset"], market["current_price"],
                                  market["target_price"], market["days_to_expiry"],
                                  market["volatility"]))

\* results.append(market_with_pricing), or continue after an exception
Collect(one, rest) == IF one.exc # "none" THEN rest ELSE <<one.val>> \o rest

\* TheoreticalPricingEngine.batch_price_markets
RECURSIVE batch_price_markets(_, _)
batch_price_markets(r, markets) ==
    IF markets = <<>> THEN <<>>
    ELSE Collect(PriceOne(r, Head(markets)), batch_price_markets(r, Tail(markets)))

\* One pass of the for loop of calculate_implied_volatility, for the values of
\* its locals p_theory, p_up and p_down.  The two tolerances, 1e-6 and 1e-10,
\* lie below the model's resolution: a magnitude is below them when it is 0
\* at that resolution.
\* [exc, brk, val]: the exception raised, or whether the loop breaks, and the
\* estimate after the pass.
NewtonUpdate(sig, market_price, p_theory, p_up, p_down) ==
    IF p_theory.exc # "none" THEN [exc |-> p_theory.exc, brk |-> FALSE, val |-> sig]
    ELSE IF p_up.exc # "none" THEN [exc |-> p_up.exc, brk |-> FALSE, val |-> sig]
    ELSE IF p_down.exc # "none" THEN [exc |-> p_down.exc, brk |-> FALSE, val |-> sig]
    ELSE LET dp_dsigma == DivFx(p_up.val - p_down.val, Scale \div 50)
             error == p_theory.val - market_price
         IN  IF Abs(error) = 0 THEN [exc |-> "none", brk |-> TRUE, val |-> sig]
             ELSE IF Abs(dp_dsigma) = 0 THEN [exc |-> "none", brk |-> TRUE, val |-> sig]
             ELSE [exc |-> "none", brk |-> FALSE,
                   val |-> Max(Scale \div 100,
                               Min(5 * Scale, sig - DivFx(error, dp_dsigma)))]

\* The body of the for loop of calculate_implied_volatility at the estimate sig
NewtonPass(r, S0, H, T, market_price, sig) ==
    NewtonUpdate(sig, market_price,
                 barrier_hit_probability(r, S0, H, T, sig, 0),
                 barrier_hit_probability(r, S0, H, T, sig + Scale \div 100, 0),
                 barrier_hit_probability(r, S0, H, T, sig - Scale \div 100, 0))

\* calculate_implied_volatility: max_iterations
max_iterations == 100

-----------------------------------------------------------------------------
(* The calls of the pricing engine                                         *)

\* The longest time to expiry drawn, in years, and the longest batch
MaxYears == 2
MaxBatch == 2

Spots == {90, 100, 110, 150}
Barriers == {100, 110, 150}
Vols == {0, Scale \div 20, Scale \div 5, Scale \div 2, Scale}
Expiries == {DivFx(30, 365)} \cup {y * Scale : y \in 1..MaxYears}

HitArgs(op) ==
    {[op |-> op, S0 |-> s, H |-> h, T |-> t, sigma |-> v] :
        s \in Spots, h \in Barriers, t \in Expiries, v \in Vols}

ImpliedVolArgs ==
    {[op |-> "calculate_implied_volatility", S0 |-> 100, H |-> h, T |-> t,
      market_price |-> m, initial_guess |-> g] :
        h \in {105, 110}, t \in Expiries,
        m \in {Scale \div 20, (15 * Scale) \div 100, Scale \div 2, (95 * Scale) \div 100},
        g \in {Scale \div 100, Scale \div 2, Scale, 5 * Scale}}

\* Market records: every combination of the fields, and the same records
\* with the volatility key missing
FullMarkets ==
    [asset : {"BTC"}, current_price : {100, 120}, target_price : {110},
     days_to_expiry : {0, 30}, volatility : {0, (55 * Scale) \div 100},
     market_price : {(7 * Scale) \div 100}]

Markets ==
    FullMarkets \cup {[k \in DOMAIN m \ {"volatility"} |-> m[k]] : m \in FullMarkets}

\* The sequences over S of length n, and of length at most n
RECURSIVE SeqsOfLen(_, _)
SeqsOfLen(S, n) ==
    IF n = 0 THEN {<<>>} ELSE {Append(q, x) : q \in SeqsOfLen(S, n - 1), x \in S}

SeqsUpTo(S, n) == UNION {SeqsOfLen(S, k) : k \in 0..n}

BatchArgs == {[op |-> "batch_price_markets", markets |-> ms] : ms \in SeqsUpTo(Markets, MaxBatch)}

PricingArgs ==
    HitArgs("barrier_hit_probability") \cup HitArgs("verify_math.barrier_hit_probability")
        \cup ImpliedVolArgs \cup BatchArgs

Finish(result) ==
    /\ ret' = result
    /\ pc' = IF result.exc = "none" THEN "done" ELSE "raised"

BarrierHitProbability ==
    /\ pc = "start"
    /\ args.op = "barrier_hit_probability"
    /\ Finish(barrier_hit_probability(risk_free_rate, args.S0, args.H, args.T, args.sigma, 0))
    /\ UNCHANGED <<args, sigma, iter, sim>>

VerifyMathBarrierHitProbability ==
    /\ pc = "start"
    /\ args.op = "verify_math.barrier_hit_probability"
    /\ Finish(vm_barrier_hit_probability(args.S0, args.H, args.T, args.sigma, 0, 0))
    /\ UNCHANGED <<args, sigma, iter, sim>>

\* calculate_implied_volatility up to the loop: sigma = initial_guess
ImpliedVolEnter ==
    /\ pc = "start"
    /\ args.op = "calculate_implied_volatility"
    /\ sigma' = args.initial_guess
    /\ iter' = 0
    /\ pc' = "loop"
    /\ UNCHANGED <<args, ret, sim>>

\* What a pass of the loop leads to: the exception, the return after a break,
\* or the next pass with the new sigma
AfterPass(pass) ==
    IF pass.exc # "none"
    THEN Finish(Raise(pass.exc)) /\ UNCHANGED <<sigma, iter>>
    ELSE IF pass.brk
    THEN Finish(Value(sigma)) /\ UNCHANGED <<sigma, iter>>
    ELSE sigma' = pass.val /\ iter' = iter + 1 /\ UNCHANGED <<pc, ret>>

\* One pass of the loop
ImpliedVolPass ==
    /\ pc = "loop"
    /\ args.op = "calculate_implied_volatility"
    /\ iter < max_iterations
    /\ AfterPass(NewtonPass(risk_free_rate, args.S0, args.H, args.T, args.market_price, sigma))
    /\ UNCHANGED <<args, sim>>

\* The loop ran max_iterations passes: return sigma
ImpliedVolExhausted ==
    /\ pc = "loop"
    /\ args.op = "calculate_implied_volatility"
    /\ iter = max_iterations
    /\ Finish(Value(sigma))
    /\ UNCHANGED <<args, sigma, iter, sim>>

BatchPriceMarkets ==
    /\ pc = "start"
    /\ args.op = "batch_price_markets"
    /\ Finish(Value(batch_price_markets(risk_free_rate, args.markets)))
    /\ UNCHANGED <<args, sigma, iter, sim>>

InitPricing == args \in PricingArgs /\ pc = "start" /\ ret = Value(0) /\ sigma = 0 /\ iter = 0 /\ sim = NoSim

NextPricing ==
    \/ BarrierHitProbability
    \/ VerifyMathBarrierHitProbability
    \/ ImpliedVolEnter
    \/ ImpliedVolPass
    \/ ImpliedVolExhausted
    \/ BatchPriceMarkets

SpecPricing == InitPricing /\ [][NextPricing]_vars

-----------------------------------------------------------------------------
(* scanner/inefficiency_detector.py                                        *)

\* InefficiencyDetector.calculate_edge: the tuple returned, as a record.  The
\* edge percentage is compared with self.min_edge_threshold as it stands.
calculate_edge(min_edge_threshold, theoretical_price, market_price) ==
    IF market_price <= 0
    THEN [edge_absolute |-> 0, edge_percentage |-> 0, recommendation |-> "INVALID"]
    ELSE LET edge_absolute == theoretical_price - market_price
             edge_percentage == DivFx(edge_absolute, market_price) * 100
         IN  [edge_absolute |-> edge_absolute,
              edge_percentage |-> edge_percentage,
              recommendation |->
                  IF edge_percentage > min_edge_threshold THEN "BET_YES"
                  ELSE IF edge_percentage < -min_edge_threshold THEN "BET_NO"
                  ELSE "SKIP"]

\* Prices are drawn in steps of 1 / PriceSteps
PriceSteps == 20

Price(k) == (k * Scale) \div PriceSteps

\* Thresholds: 5%, the default 10%, and 20%
EdgeArgs ==
    {[op |-> "calculate_edge", min_edge_threshold |-> t,
      theoretical_price |-> Price(k), market_price |-> Price(j)] :
        t \in {Scale \div 20, Scale \div 10, Scale \div 5},
        k \in 0..PriceSteps, j \in 0..PriceSteps}

CalculateEdge ==
    /\ pc = "start"
    /\ args.op = "calculate_edge"
    /\ Finish(Value(calculate_edge(args.min_edge_threshold, args.theoretical_price,
                                   args.market_price)))
    /\ UNCHANGED <<args, sigma, iter, sim>>

\* analyze_market, for the tuple calculate_edge returned: market_data.copy()
\* updated with the edge, the recommendation and the flag is_opportunity, which
\* compares the edge percentage with the threshold times 100
Analysis(min_edge_threshold, market_data, edge) ==
    DictUpdate(market_data,
               [edge_absolute |-> edge.edge_absolute,
                edge_percentage |-> edge.edge_percentage,
                recommendation |-> edge.recommendation,
                is_opportunity |-> Abs(edge.edge_percentage) >= min_edge_threshold * 100])

\* InefficiencyDetector.analyze_market; a missing key raises KeyError
analyze_market(min_edge_threshold, market_data) ==
    IF ~({"theoretical_price", "market_price"} \subseteq DOMAIN market_data)
    THEN Raise("KeyError")
    ELSE Value(Analysis(min_edge_threshold, market_data,
                        calculate_edge(min_edge_threshold, market_data["theoretical_price"],
                                       market_data["market_price"])))

\* The loop of scan_markets: results.append(analysis), or continue after an
\* exception
RECURSIVE Analyses(_, _)
Analyses(min_edge_threshold, markets) ==
    IF markets = <<>> THEN <<>>
    ELSE Collect(analyze_market(min_edge_threshold, Head(markets)),
                 Analyses(min_edge_threshold, Tail(markets)))

\* df.sort_values('edge_percentage', key=abs, ascending=False): on frames this
\* short the sort keeps rows of equal key in their order, so a row goes behind
\* the rows before it whose absolute edge is not smaller
RECURSIVE InsertByEdge(_, _)
InsertByEdge(sorted, row) ==
    IF sorted = <<>> THEN <<row>>
    ELSE IF Abs(Head(sorted).edge_percentage) >= Abs(row.edge_percentage)
    THEN <<Head(sorted)>> \o InsertByEdge(Tail(sorted), row)
    ELSE <<row>> \o sorted

RECURSIVE SortByEdge(_)
SortByEdge(results) ==
    IF results = <<>> THEN <<>>
    ELSE InsertByEdge(SortByEdge(SubSeq(results, 1, Len(results) - 1)), results[Len(results)])

\* InefficiencyDetector.scan_markets: the DataFrame as the sequence of its
\* rows, the empty DataFrame for no results
scan_markets(min_edge_threshold, markets) ==
    SortByEdge(Analyses(min_edge_threshold, markets))

\* The six frames of get_opportunities
Categories(min_edge_threshold, markets_df) ==
    LET Undervalued(row) == row.edge_percentage > min_edge_threshold * 100
        Overvalued(row) == row.edge_percentage < -(min_edge_threshold * 100)
        High(row) == Abs(row.edge_percentage) > 50 * Scale
        Medium(row) == Abs(row.edge_percentage) > 20 * Scale /\ Abs(row.edge_percentage) <= 50 * Scale
        Low(row) == /\ Abs(row.edge_percentage) > min_edge_threshold * 100
                    /\ Abs(row.edge_percentage) <= 20 * Scale
    IN  [all |-> markets_df,
         undervalued |-> SelectSeq(markets_df, Undervalued),
         overvalued |-> SelectSeq(markets_df, Overvalued),
         high_confidence |-> SelectSeq(markets_df, High),
         medium_confidence |-> SelectSeq(markets_df, Medium),
         low_confidence |-> SelectSeq(markets_df, Low)]

\* InefficiencyDetector.get_opportunities; the empty DataFrame has no column
\* edge_percentage, and selecting it raises KeyError
get_opportunities(min_edge_threshold, markets_df) ==
    IF markets_df = <<>> THEN Raise("KeyError")
    ELSE Value(Categories(min_edge_threshold, markets_df))

\* The longest list of markets scanned
MaxMarkets == 2

\* Markets priced at 0, 0.40 and 0.50 against theoretical prices from 0 to 1,
\* and markets without a theoretical price
ScannedKinds ==
    [theoretical_price : {0, (2 * Scale) \div 5, (42 * Scale) \div 100, (4 * Scale) \div 5, Scale},
     market_price : {0, (2 * Scale) \div 5, Scale \div 2}]
      \cup [market_price : {(2 * Scale) \div 5}]

ScannedMarket(i, kind) ==
    DictUpdate(kind, [market_id |-> i, asset |-> "BTC"])

\* The arguments of one call of scan_markets, by a detector with the default
\* threshold of 10% or with 20%
ScanCall ==
    \E t \in {Scale \div 10, Scale \div 5}, n \in 0..MaxMarkets : \E f \in [1..n -> ScannedKinds] :
        args = [op |-> "scan_markets", min_edge_threshold |-> t,
                markets |-> [i \in 1..n |-> ScannedMarket(i, f[i])]]

\* opportunities_df = scan_markets(markets_analysis)
ScanMarkets ==
    /\ pc = "start"
    /\ args.op = "scan_markets"
    /\ ret' = Value(scan_markets(args.min_edge_threshold, args.markets))
    /\ pc' = "scanned"
    /\ UNCHANGED <<args, sigma, iter, sim>>

\* opportunities = get_opportunities(opportunities_df)
GetOpportunities ==
    /\ pc = "scanned"
    /\ args.op = "scan_markets"
    /\ Finish(get_opportunities(args.min_edge_threshold, ret.val))
    /\ UNCHANGED <<args, sigma, iter, sim>>

InitDetector == (args \in EdgeArgs \/ ScanCall) /\ pc = "start" /\ ret = Value(0) /\ sigma = 0 /\ iter = 0 /\ sim = NoSim

NextDetector ==
    \/ CalculateEdge
    \/ ScanMarkets
    \/ GetOpportunities

SpecDetector == InitDetector /\ [][NextDetector]_vars

-----------------------------------------------------------------------------
(* portfolio/position_sizer.py                                             *)

\* calculate_kelly_fraction with the payout ratio taken for the odds received
calculate_kelly_fraction_gross_odds(win_probability, payout_ratio) ==
    IF win_probability <= 0 \/ win_probability >= Scale THEN 0
    ELSE IF payout_ratio <= 0 THEN 0
    ELSE IF payout_ratio - Scale <= 0 THEN 0
    ELSE Max(0, DivFx(MulFx(win_probability, payout_ratio) - (Scale - win_probability),
                      payout_ratio))

\* calculate_kelly_fraction returning kelly_f as computed, negative or not
calculate_kelly_fraction_unfloored(win_probability, payout_ratio) ==
    IF win_probability <= 0 \/ win_probability >= Scale THEN 0
    ELSE IF payout_ratio <= 0 THEN 0
    ELSE IF payout_ratio - Scale <= 0 THEN 0
    ELSE DivFx(MulFx(win_probability, payout_ratio - Scale) - (Scale - win_probability),
               payout_ratio - Scale)

\* KellyPositionSizer.calculate_kelly_fraction
calculate_kelly_fraction(win_probability, payout_ratio) ==
    IF win_probability <= 0 \/ win_probability >= Scale THEN 0
    ELSE IF payout_ratio <= 0 THEN 0
    ELSE LET odds_received == payout_ratio - Scale
             lose_probability == Scale - win_probability
         IN  IF odds_received <= 0 THEN 0
             ELSE Max(0, DivFx(MulFx(win_probability, odds_received) - lose_probability,
                               odds_received))

risk_adjusted_uncapped(kelly_f, kelly_fraction, max_position_size) ==
    MulFx(kelly_f, kelly_fraction)

\* size_position: risk_adjusted_fraction, for self.kelly_fraction and self.max_position_size
risk_adjusted(kelly_f, kelly_fraction, max_position_size) ==
    Min(MulFx(kelly_f, kelly_fraction), max_position_size)

\* size_position from the allocation on, for the values of its locals
PositionOf(price, win_probability, payout_ratio, kelly_f, risk_adjusted_fraction, allocation) ==
    [allocation |-> allocation,
     shares |-> DivFx(allocation, price),
     kelly_fraction |-> kelly_f,
     risk_adjusted_fraction |-> risk_adjusted_fraction,
     expected_value |-> MulFx(allocation, MulFx(win_probability, payout_ratio) - Scale),
     win_probability |-> win_probability,
     payout_ratio |-> payout_ratio]

\* size_position from the risk-adjusted fraction on
Allocated(price, win_probability, payout_ratio, kelly_f, risk_adjusted_fraction, total_capital) ==
    PositionOf(price, win_probability, payout_ratio, kelly_f, risk_adjusted_fraction,
               MulFx(total_capital, risk_adjusted_fraction))

\* size_position from the Kelly fraction on
Sized(kelly_fraction, max_position_size, price, win_probability, payout_ratio, kelly_f, total_capital) ==
    Allocated(price, win_probability, payout_ratio, kelly_f,
              risk_adjusted(kelly_f, kelly_fraction, max_position_size), total_capital)

\* size_position for a bet on the side that costs price per share and wins with
\* win_probability; 1.0 / price raises for a price of 0
SizeBet(kelly_fraction, max_position_size, price, win_probability, total_capital) ==
    IF price = 0 THEN Raise("ZeroDivisionError")
    ELSE Value(Sized(kelly_fraction, max_position_size, price, win_probability,
                     DivFx(Scale, price),
                     calculate_kelly_fraction(win_probability, DivFx(Scale, price)), total_capital))

\* size_position: the position returned when no bet is recommended
NoBet ==
    [allocation |-> 0, shares |-> 0, kelly_fraction |-> 0, expected_value |-> 0,
     risk_adjusted_fraction |-> 0]

\* size_position with every recommendation but BET_YES sized as a bet on NO
size_position_else_no(kelly_fraction, max_position_size, opportunity, total_capital) ==
    IF opportunity.recommendation = "BET_YES"
    THEN SizeBet(kelly_fraction, max_position_size, opportunity.market_price,
                 opportunity.theoretical_price, total_capital)
    ELSE SizeBet(kelly_fraction, max_position_size, Scale - opportunity.market_price,
                 Scale - opportunity.theoretical_price, total_capital)

\* KellyPositionSizer.size_position, for self.kelly_fraction and self.max_position_size
size_position(kelly_fraction, max_position_size, opportunity, total_capital) ==
    IF opportunity.recommendation = "BET_YES"
    THEN SizeBet(kelly_fraction, max_position_size, opportunity.market_price,
                 opportunity.theoretical_price, total_capital)
    ELSE IF opportunity.recommendation = "BET_NO"
    THEN SizeBet(kelly_fraction, max_position_size, Scale - opportunity.market_price,
                 Scale - opportunity.theoretical_price, total_capital)
    ELSE Value(NoBet)

\* sum(p['allocation'] for p in positions)
RECURSIVE TotalAllocation(_)
TotalAllocation(positions) ==
    IF positions = <<>> THEN 0
    ELSE Head(positions).allocation + TotalAllocation(Tail(positions))

\* list.sort(key = expected_value, reverse = True): stable, so a position goes
\* behind the positions before it whose expected value is not smaller
RECURSIVE InsertByValue(_, _)
InsertByValue(sorted, p) ==
    IF sorted = <<>> THEN <<p>>
    ELSE IF Head(sorted).expected_value >= p.expected_value
    THEN <<Head(sorted)>> \o InsertByValue(Tail(sorted), p)
    ELSE <<p>> \o sorted

RECURSIVE SortByValue(_)
SortByValue(positions) ==
    IF positions = <<>> THEN <<>>
    ELSE InsertByValue(SortByValue(SubSeq(positions, 1, Len(positions) - 1)),
                       positions[Len(positions)])

\* optimize_portfolio: a position with allocation, shares and expected value
\* multiplied by scale_factor
\* A scaling that reaches the allocation alone
Scaled_allocation_only(position, scale_factor) ==
    [position EXCEPT !.allocation = MulFx(@, scale_factor)]

Scaled(position, scale_factor) ==
    [position EXCEPT !.allocation = MulFx(@, scale_factor),
                     !.shares = MulFx(@, scale_factor),
                     !.expected_value = MulFx(@, scale_factor)]

ScaleAll(positions, scale_factor) ==
    [i \in 1..Len(positions) |-> Scaled(positions[i], scale_factor)]

rebalanced_unscaled(valid_positions, total_allocated, total_capital) == valid_positions

\* optimize_portfolio from total_allocated on
rebalanced(valid_positions, total_allocated, total_capital) ==
    IF total_allocated > total_capital
    THEN ScaleAll(valid_positions, DivFx(total_capital, total_allocated))
    ELSE valid_positions

\* optimize_portfolio after the sort
Rebalance(valid_positions, total_capital) ==
    rebalanced(valid_positions, TotalAllocation(valid_positions), total_capital)

AtLeast(positions, min_allocation) ==
    LET Keep(p) == p.allocation >= min_allocation IN SelectSeq(positions, Keep)

\* KellyPositionSizer.optimize_portfolio
optimize_portfolio(positions, total_capital, min_allocation) ==
    IF AtLeast(positions, min_allocation) = <<>> THEN <<>>
    ELSE Rebalance(SortByValue(AtLeast(positions, min_allocation)), total_capital)

\* dict.get(key, default)
DictGet(d, key, default) == IF key \in DOMAIN d THEN d[key] ELSE default

\* position.update({...}): the opportunity's data, with the defaults of get
WithOpportunity(position, opportunity) ==
    IF position.exc # "none" THEN position
    ELSE Value(DictUpdate(position.val,
                          [asset |-> DictGet(opportunity, "asset", ""),
                           target |-> DictGet(opportunity, "target", 0),
                           market_price |-> DictGet(opportunity, "market_price", 0),
                           theoretical_price |-> DictGet(opportunity, "theoretical_price", 0),
                           edge_percentage |-> DictGet(opportunity, "edge_percentage", 0),
                           recommendation |-> DictGet(opportunity, "recommendation", "SKIP")]))

\* KellyPositionSizer.size_portfolio: positions.append(position), or continue
\* after an exception
RECURSIVE size_portfolio(_, _, _, _)
size_portfolio(kelly_fraction, max_position_size, opportunities, total_capital) ==
    IF opportunities = <<>> THEN <<>>
    ELSE Collect(WithOpportunity(size_position(kelly_fraction, max_position_size,
                                               Head(opportunities), total_capital),
                                 Head(opportunities)),
                 size_portfolio(kelly_fraction, max_position_size, Tail(opportunities),
                                total_capital))

\* sum(p['expected_value'] for p in portfolio)
RECURSIVE TotalExpectedValue(_)
TotalExpectedValue(portfolio) ==
    IF portfolio = <<>> THEN 0
    ELSE Head(portfolio).expected_value + TotalExpectedValue(Tail(portfolio))

\* sum(w**2 for w in weights), weights = [p['allocation'] / total_allocation ...]
RECURSIVE HerfindahlIndex(_, _)
HerfindahlIndex(portfolio, total_allocation) ==
    IF portfolio = <<>> THEN 0
    ELSE MulFx(DivFx(Head(portfolio).allocation, total_allocation),
               DivFx(Head(portfolio).allocation, total_allocation))
            + HerfindahlIndex(Tail(portfolio), total_allocation)

\* max(...) and min(...) of the allocations of a non-empty portfolio
LargestAllocation(portfolio) ==
    CHOOSE a \in {portfolio[k].allocation : k \in DOMAIN portfolio} :
        \A k \in DOMAIN portfolio : portfolio[k].allocation <= a

SmallestAllocation(portfolio) ==
    CHOOSE a \in {portfolio[k].allocation : k \in DOMAIN portfolio} :
        \A k \in DOMAIN portfolio : portfolio[k].allocation >= a

\* The metrics of a non-empty portfolio, for its totals and its Herfindahl index
MetricsOf(portfolio, total_allocation, total_expected_value, herfindahl_index) ==
    [total_allocation |-> total_allocation,
     total_expected_value |-> total_expected_value,
     expected_return |-> IF total_allocation > 0
                         THEN DivFx(total_expected_value, total_allocation) * 100
                         ELSE 0,
     position_count |-> Len(portfolio),
     diversification_ratio |-> IF herfindahl_index > 0 THEN DivFx(Scale, herfindahl_index) ELSE 0,
     avg_position_size |-> DivFx(total_allocation, Len(portfolio) * Scale),
     max_position_size |-> LargestAllocation(portfolio),
     min_position_size |-> SmallestAllocation(portfolio)]

\* The metrics returned for an empty portfolio
NoMetrics ==
    [total_allocation |-> 0, total_expected_value |-> 0, expected_return |-> 0,
     position_count |-> 0, diversification_ratio |-> 0]

\* KellyPositionSizer.calculate_portfolio_metrics: the weights are divided by
\* the total allocation whatever it is, and a float division by 0.0 raises
calculate_portfolio_metrics(portfolio) ==
    IF portfolio = <<>> THEN Value(NoMetrics)
    ELSE IF TotalAllocation(portfolio) = 0 THEN Raise("ZeroDivisionError")
    ELSE Value(MetricsOf(portfolio, TotalAllocation(portfolio), TotalExpectedValue(portfolio),
                         HerfindahlIndex(portfolio, TotalAllocation(portfolio))))

-----------------------------------------------------------------------------
(* The calls of the position sizer                                         *)

\* The longest list of positions drawn
MaxPositions == 3

\* Win probabilities from -0.2 to 1.2 and payout ratios from -1 to 20
KellyArgs ==
    {[op |-> "calculate_kelly_fraction", win_probability |-> (k * Scale) \div 10,
      payout_ratio |-> b] :
        k \in -2..12,
        b \in {-Scale, 0, Scale \div 2, Scale, (3 * Scale) \div 2, 2 * Scale, 5 * Scale,
               20 * Scale}}

\* The sizer as configured by default (0.25, 0.40), at full Kelly, and with a cap of 0.10
SizerConfigs ==
    {<<Scale \div 4, (2 * Scale) \div 5>>, <<Scale, (2 * Scale) \div 5>>,
     <<Scale \div 2, Scale \div 10>>}

\* Opportunities: theoretical prices up to 1.1, market prices in [0, 1]
Opportunities ==
    {[theoretical_price |-> Price(k), market_price |-> Price(j), recommendation |-> rec] :
        k \in 0..(PriceSteps + 2), j \in 0..PriceSteps,
        rec \in {"BET_YES", "BET_NO", "SKIP", "INVALID"}}

SizeArgs ==
    {[op |-> "size_position", kelly_fraction |-> c[1], max_position_size |-> c[2],
      opportunity |-> o, total_capital |-> cap * Scale] :
        c \in SizerConfigs, o \in Opportunities, cap \in {0, 1000, 10000}}

\* Positions as optimize_portfolio reads them, in dollars
SamplePositions ==
    {[allocation |-> a * Scale, shares |-> 2 * a * Scale, expected_value |-> v * Scale] :
        a \in {0, 50, 100, 600}, v \in {-20, 30}}

OptimizeArgs ==
    {[op |-> "optimize_portfolio", positions |-> ps, total_capital |-> cap * Scale,
      min_allocation |-> m * Scale] :
        ps \in SeqsUpTo(SamplePositions, MaxPositions), cap \in {0, 500, 1000},
        m \in {0, 100}}

SizerArgs == KellyArgs \cup SizeArgs \cup OptimizeArgs

CalculateKellyFraction ==
    /\ pc = "start"
    /\ args.op = "calculate_kelly_fraction"
    /\ Finish(Value(calculate_kelly_fraction(args.win_probability, args.payout_ratio)))
    /\ UNCHANGED <<args, sigma, iter, sim>>

SizePosition ==
    /\ pc = "start"
    /\ args.op = "size_position"
    /\ Finish(size_position(args.kelly_fraction, args.max_position_size, args.opportunity,
                            args.total_capital))
    /\ UNCHANGED <<args, sigma, iter, sim>>

OptimizePortfolio ==
    /\ pc = "start"
    /\ args.op = "optimize_portfolio"
    /\ Finish(Value(optimize_portfolio(args.positions, args.total_capital,
                                       args.min_allocation)))
    /\ UNCHANGED <<args, sigma, iter, sim>>

\* The opportunities of a portfolio: an undervalued and an overvalued market,
\* a market whose barrier is breached, a market to skip, a market without a
\* price, and a BET_YES on a market priced at 0
PortfolioOpportunities ==
    {[asset |-> "BTC", theoretical_price |-> (4 * Scale) \div 5, market_price |-> (2 * Scale) \div 5,
      edge_percentage |-> 100 * Scale, recommendation |-> "BET_YES"],
     [asset |-> "BTC", theoretical_price |-> Scale \div 10, market_price |-> (2 * Scale) \div 5,
      edge_percentage |-> -(75 * Scale), recommendation |-> "BET_NO"],
     [asset |-> "ETH", theoretical_price |-> Scale, market_price |-> Scale \div 2,
      edge_percentage |-> 100 * Scale, recommendation |-> "BET_YES"],
     [theoretical_price |-> (2 * Scale) \div 5, market_price |-> (2 * Scale) \div 5,
      recommendation |-> "SKIP"],
     [asset |-> "ETH", theoretical_price |-> Scale \div 2, market_price |-> 0,
      edge_percentage |-> 0, recommendation |-> "INVALID"],
     [asset |-> "ETH", theoretical_price |-> Scale \div 2, market_price |-> 0,
      edge_percentage |-> 0, recommendation |-> "BET_YES"]}

\* The arguments of one call of size_portfolio, by the sizer as configured by
\* default
PortfolioCall ==
    \E cap \in {0, 10000}, n \in 0..MaxPositions : \E f \in [1..n -> PortfolioOpportunities] :
        args = [op |-> "size_portfolio", kelly_fraction |-> Scale \div 4,
                max_position_size |-> (2 * Scale) \div 5, opportunities |-> f,
                total_capital |-> cap * Scale]

\* positions = sizer.size_portfolio(opportunities, total_capital)
SizePortfolio ==
    /\ pc = "start"
    /\ args.op = "size_portfolio"
    /\ ret' = Value(size_portfolio(args.kelly_fraction, args.max_position_size,
                                    args.opportunities, args.total_capital))
    /\ pc' = "sized"
    /\ UNCHANGED <<args, sigma, iter, sim>>

\* metrics = sizer.calculate_portfolio_metrics(positions)
CalculatePortfolioMetrics ==
    /\ pc = "sized"
    /\ args.op = "size_portfolio"
    /\ Finish(calculate_portfolio_metrics(ret.val))
    /\ UNCHANGED <<args, sigma, iter, sim>>

InitSizer == (args \in SizerArgs \/ PortfolioCall) /\ pc = "start" /\ ret = Value(0) /\ sigma = 0 /\ iter = 0 /\ sim = NoSim

NextSizer ==
    \/ CalculateKellyFraction
    \/ SizePosition
    \/ OptimizePortfolio
    \/ SizePortfolio
    \/ CalculatePortfolioMetrics

SpecSizer == InitSizer /\ [][NextSizer]_vars

-----------------------------------------------------------------------------
(* scanner/strategy_scanner.py: StrategyGrouper                            *)
(*                                                                         *)
(* A maturity date is a whole number of hours; the rows of the DataFrame   *)
(* are the elements of a sequence, and a row's index is its position.      *)

\* timedelta.days: the whole days of a difference, rounded towards minus infinity
HoursPerDay == 24

Days(delta) == delta \div HoursPerDay

\* row.get('maturity_date', None), and the current time when there is none
MaturityOf(row, now) ==
    IF "maturity_date" \in DOMAIN row THEN row.maturity_date ELSE now

\* the asset test of the inner loop, mutated: every asset passes
SameAsset_any(row2, asset) == TRUE

\* row2['asset'] != asset: continue
SameAsset(row2, asset) == row2.asset = asset

\* abs((maturity - maturity2).days) > 1: continue
MaturityCompatible(maturity, maturity2) == ~(Abs(Days(maturity - maturity2)) > 1)

\* [o['recommendation'] for o in strategy_group]
CurrentRecommendations(strategy_group) ==
    {strategy_group[i].recommendation : i \in DOMAIN strategy_group}

\* not (has_yes and has_no) and new_recommendation not in current_recommendations
Complements(current_recommendations, new_recommendation) ==
    /\ ~("BET_YES" \in current_recommendations /\ "BET_NO" \in current_recommendations)
    /\ new_recommendation \notin current_recommendations

\* the append of the inner loop, mutated: the row is not marked processed
Added_unmarked(st, row2, idx2) ==
    [strategy_group |-> Append(st.strategy_group, row2), processed |-> st.processed]

\* strategy_group.append(row2.to_dict()); processed.add(idx2)
Added(st, row2, idx2) ==
    [strategy_group |-> Append(st.strategy_group, row2),
     processed |-> st.processed \cup {idx2}]

\* The inner loop from row idx2 on; a continue skips the test of the cap
RECURSIVE FindComplementary(_, _, _, _, _, _, _)
AfterCandidate(df, idx2, asset, maturity, now, max_opportunities, st) ==
    IF Len(st.strategy_group) >= max_opportunities
    THEN st
    ELSE FindComplementary(df, idx2 + 1, asset, maturity, now, max_opportunities, st)

FindComplementary(df, idx2, asset, maturity, now, max_opportunities, st) ==
    IF idx2 > Len(df)
    THEN st
    ELSE IF \/ idx2 \in st.processed
            \/ ~SameAsset(df[idx2], asset)
            \/ ~MaturityCompatible(maturity, MaturityOf(df[idx2], now))
    THEN FindComplementary(df, idx2 + 1, asset, maturity, now, max_opportunities, st)
    ELSE IF Complements(CurrentRecommendations(st.strategy_group), df[idx2].recommendation)
    THEN AfterCandidate(df, idx2, asset, maturity, now, max_opportunities,
                        Added(st, df[idx2], idx2))
    ELSE AfterCandidate(df, idx2, asset, maturity, now, max_opportunities, st)

\* The group seeded by row idx
SeedGroup(df, idx, now, max_opportunities, processed) ==
    FindComplementary(df, 1, df[idx].asset, MaturityOf(df[idx], now), now, max_opportunities,
                      [strategy_group |-> <<df[idx]>>, processed |-> processed \cup {idx}])

\* if len(strategy_group) >= self.min_opportunities: strategies.append(strategy_group)
Kept(strategies, strategy_group, min_opportunities) ==
    IF Len(strategy_group) >= min_opportunities
    THEN Append(strategies, strategy_group)
    ELSE strategies

\* The outer loop from row idx on
RECURSIVE GroupFrom(_, _, _, _, _, _, _)
AfterSeed(df, idx, now, min_opportunities, max_opportunities, strategies, st) ==
    GroupFrom(df, idx + 1, now, min_opportunities, max_opportunities,
              Kept(strategies, st.strategy_group, min_opportunities), st.processed)

GroupFrom(df, idx, now, min_opportunities, max_opportunities, strategies, processed) ==
    IF idx > Len(df)
    THEN strategies
    ELSE IF idx \in processed
    THEN GroupFrom(df, idx + 1, now, min_opportunities, max_opportunities, strategies, processed)
    ELSE AfterSeed(df, idx, now, min_opportunities, max_opportunities, strategies,
                   SeedGroup(df, idx, now, max_opportunities, processed))

group_opportunities(min_opportunities, max_opportunities, opportunities_df, now) ==
    IF opportunities_df = <<>>
    THEN <<>>
    ELSE GroupFrom(opportunities_df, 1, now, min_opportunities, max_opportunities, <<>>, {})

-----------------------------------------------------------------------------
(* scanner/strategy_scanner.py: HedgeCalculator and StrategyConstructor    *)
(*                                                                         *)
(* Amounts of USDC and edge percentages are fixed-point numbers; basis     *)
(* points, priorities and USDC amounts in 6 decimals are integers.         *)

\* floor(a * b / c) for c > 0, exact, without forming a * b
MulDiv(a, b, c) == (a \div c) * b + ((a % c) * b) \div c

\* int(x) of a float: the whole part, rounded towards zero
TruncInt(x) == IF x >= 0 THEN x \div Scale ELSE -((-x) \div Scale)

\* the direction of the hedge, mutated: LONG for BET_YES
is_long_with_the_bet(recommendation) == recommendation = "BET_YES"

\* is_long: False for BET_YES, True otherwise
is_long(recommendation) == IF recommendation = "BET_YES" THEN FALSE ELSE TRUE

\* hedge_allocation_pct = min(0.6, 0.3)
hedge_allocation_pct == Min((6 * Scale) \div 10, (3 * Scale) \div 10)

\* The rationale string is left out of the record
calculate_hedge(opportunity, polymarket_allocation) ==
    [asset |-> opportunity.asset,
     isLong |-> is_long(opportunity.recommendation),
     direction |-> IF is_long(opportunity.recommendation) THEN "LONG" ELSE "SHORT",
     allocation_pct |-> hedge_allocation_pct,
     opportunity_edge |-> opportunity.edge_percentage]

\* opp.get('notional_bps', 5000)
NotionalBpsOf(opp) == IF "notional_bps" \in DOMAIN opp THEN opp.notional_bps ELSE 5000

\* polymarket_allocation = (net_amount_usdc * notional_bps) / 10_000
polymarket_allocation(opp, net_amount_usdc) == MulDiv(net_amount_usdc, NotionalBpsOf(opp), 10000)

\* hedge_amount_usdc = polymarket_allocation * hedge['allocation_pct']
hedge_amount_usdc(opp, net_amount_usdc) ==
    MulFx(polymarket_allocation(opp, net_amount_usdc),
          calculate_hedge(opp, polymarket_allocation(opp, net_amount_usdc)).allocation_pct)

\* The order appended for one opportunity; int(hedge_amount_usdc * 1_000_000)
\* is the fixed-point amount times 1_000_000 / Scale, a whole number
HedgeOrder(hedge, amount_usdc) ==
    [asset |-> hedge.asset,
     isLong |-> hedge.isLong,
     amount |-> amount_usdc * (1000000 \div Scale),
     maxSlippageBps |-> 500]

RECURSIVE HedgeOrdersFrom(_, _, _, _)
HedgeOrdersFrom(opportunities, k, net_amount_usdc, acc) ==
    IF k > Len(opportunities)
    THEN acc
    ELSE HedgeOrdersFrom(opportunities, k + 1, net_amount_usdc,
            [hedge_orders |->
                Append(acc.hedge_orders,
                       HedgeOrder(calculate_hedge(opportunities[k],
                                      polymarket_allocation(opportunities[k], net_amount_usdc)),
                                  hedge_amount_usdc(opportunities[k], net_amount_usdc))),
             total_hedge_allocation |->
                acc.total_hedge_allocation + hedge_amount_usdc(opportunities[k], net_amount_usdc)])

\* Returns the pair (hedge_orders, total_hedge_allocation) as a record
build_hedge_orders(opportunities, net_amount_usdc) ==
    HedgeOrdersFrom(opportunities, 1, net_amount_usdc,
                    [hedge_orders |-> <<>>, total_hedge_allocation |-> 0])

\* the allocation of a market order, mutated: no cap at 50%
notional_bps_uncapped(edge_percentage) ==
    TruncInt(MulFx(DivFx(Abs(edge_percentage), 100 * Scale), 10000 * Scale))

\* notional_bps = min(int((abs_edge / 100) * 10_000), 5000)
notional_bps(edge_percentage) ==
    Min(TruncInt(MulFx(DivFx(Abs(edge_percentage), 100 * Scale), 10000 * Scale)), 5000)

\* int(opp['market_price'] * 10_000 * 1.25)
max_price_bps(market_price) == TruncInt(MulFx(market_price * 10000, (125 * Scale) \div 100))

PolymarketOrder(opp, idx) ==
    [marketId |-> opp.market_id,
     isYes |-> opp.recommendation = "BET_YES",
     notionalBps |-> notional_bps(opp.edge_percentage),
     maxPriceBps |-> max_price_bps(opp.market_price),
     priority |-> idx + 1]

\* enumerate() counts from 0: leg k of the sequence has idx = k - 1
PolymarketOrders(opportunity_group) ==
    [k \in DOMAIN opportunity_group |-> PolymarketOrder(opportunity_group[k], k - 1)]

RECURSIVE SumOver(_, _)
SumOver(f, k) == IF k = 0 THEN 0 ELSE f[k] + SumOver(f, k - 1)

\* The name: the assets joined, and "Mixed" or the one recommendation
StrategyName(opportunity_group) ==
    LET recommendations == CurrentRecommendations(opportunity_group)
    IN  [assets |-> {opportunity_group[k].asset : k \in DOMAIN opportunity_group},
         kind |-> IF Cardinality(recommendations) > 1
                  THEN "Mixed"
                  ELSE CHOOSE x \in recommendations : TRUE]

\* avg_edge = sum(edge_percentage) / len(opportunity_group)
AvgEdge(opportunity_group) ==
    DivFx(SumOver([k \in DOMAIN opportunity_group |-> opportunity_group[k].edge_percentage],
                  Len(opportunity_group)),
          Len(opportunity_group) * Scale)

\* expected_profit_bps = int(min(avg_edge * 100, 10_000))
ExpectedProfitBps(avg_edge) == TruncInt(Min(avg_edge * 100, 10000 * Scale))

StrategyDef(opportunity_group, strategy_id, net_amount_usdc, fee_bps, maturity_days, now, polymarket_orders, avg_edge) ==
    [id |-> strategy_id,
     name |-> StrategyName(opportunity_group),
     feeBps |-> fee_bps,
     maturityTs |-> now + maturity_days * HoursPerDay,
     polymarketOrders |-> polymarket_orders,
     hedgeOrders |-> build_hedge_orders(opportunity_group, net_amount_usdc).hedge_orders,
     expectedProfitBps |-> ExpectedProfitBps(avg_edge),
     totalNotionalBps |->
        SumOver([k \in DOMAIN polymarket_orders |-> polymarket_orders[k].notionalBps],
                Len(polymarket_orders)),
     opportunityCount |-> Len(opportunity_group),
     avgEdge |-> avg_edge]

\* recommendations[0] of an empty list raises IndexError
construct_strategy(opportunity_group, strategy_id, net_amount_usdc, fee_bps, maturity_days, now) ==
    IF opportunity_group = <<>>
    THEN Raise("IndexError")
    ELSE Value(StrategyDef(opportunity_group, strategy_id, net_amount_usdc, fee_bps,
                           maturity_days, now, PolymarketOrders(opportunity_group),
                           AvgEdge(opportunity_group)))

-----------------------------------------------------------------------------
(* The calls of the strategy scanner                                       *)

\* The longest DataFrame and the longest opportunity group drawn
MaxOpps == 3
MaxLegs == 2

\* What a row of the DataFrame holds besides its market id: BTC rows maturing
\* at hours 0 and 36 or without a maturity date (maturity -1), ETH rows
\* maturing at hour 0
RowKinds ==
    [asset : {"BTC"}, maturity : {-1, 0, 36},
     recommendation : {"BET_YES", "BET_NO", "SKIP", "INVALID"}]
      \cup [asset : {"ETH"}, maturity : {0},
            recommendation : {"BET_YES", "BET_NO", "SKIP", "INVALID"}]

\* The edges calculate_edge gives at a market price of 0.40 for theoretical
\* prices 0.64, 0.10 and 0.4002, and for an INVALID row without a market price
EdgeOf(recommendation) ==
    CASE recommendation = "BET_YES" -> 60 * Scale
      [] recommendation = "BET_NO" -> -(75 * Scale)
      [] recommendation = "SKIP" -> (5 * Scale) \div 100
      [] OTHER -> 0

RowOf(i, kind) ==
    LET row == [market_id |-> i, asset |-> kind.asset, recommendation |-> kind.recommendation,
                edge_percentage |-> EdgeOf(kind.recommendation),
                market_price |-> IF kind.recommendation = "INVALID" THEN 0 ELSE (2 * Scale) \div 5,
                maturity_date |-> kind.maturity]
    IN  IF kind.maturity = -1
        THEN [k \in DOMAIN row \ {"maturity_date"} |-> row[k]]
        ELSE row

\* The grouper as configured by default (1, 4), with 2 to 2 members and with
\* 1 to 1 member
GrouperConfigs == {<<1, 4>>, <<2, 2>>, <<1, 1>>}

GroupCall(c, df) ==
    [op |-> "group_opportunities", min_opportunities |-> c[1], max_opportunities |-> c[2],
     opportunities_df |-> df, now |-> 60]

\* The legs of an opportunity group: edges from -60% to 45%
LegKinds ==
    [asset : {"BTC", "ETH"}, recommendation : {"BET_YES", "BET_NO"},
     edge_percentage : {-(60 * Scale), -((1234 * Scale) \div 100), (3 * Scale) \div 100,
                        45 * Scale},
     market_price : {(7 * Scale) \div 100, (57 * Scale) \div 100}]

LegOf(i, kind) ==
    [market_id |-> i, asset |-> kind.asset, recommendation |-> kind.recommendation,
     edge_percentage |-> kind.edge_percentage, market_price |-> kind.market_price]

Capitals == {1000 * Scale, 2500 * Scale}

HedgeCall(kind, rec, a) ==
    [op |-> "calculate_hedge", opportunity |-> LegOf(1, [kind EXCEPT !.recommendation = rec]),
     polymarket_allocation |-> a]

HedgeOrdersCall(g, c) ==
    [op |-> "build_hedge_orders", opportunities |-> g, net_amount_usdc |-> c]

ConstructCall(g, c) ==
    [op |-> "construct_strategy", opportunity_group |-> g, strategy_id |-> 1,
     net_amount_usdc |-> c, fee_bps |-> 200, maturity_days |-> 30, now |-> 60]

\* The arguments of one call of the scanner's functions
ScannerCall ==
    \/ \E c \in GrouperConfigs, n \in 0..MaxOpps : \E f \in [1..n -> RowKinds] :
          args = GroupCall(c, [i \in 1..n |-> RowOf(i, f[i])])
    \/ \E kind \in LegKinds, rec \in {"BET_YES", "BET_NO", "SKIP"},
          a \in {0, 150 * Scale, 500 * Scale} :
          args = HedgeCall(kind, rec, a)
    \/ \E n \in 0..MaxLegs : \E f \in [1..n -> LegKinds] :
          args = HedgeOrdersCall([i \in 1..n |-> LegOf(i, f[i])], 1000 * Scale)
    \/ \E c \in Capitals, n \in 0..MaxLegs : \E f \in [1..n -> LegKinds] :
          args = ConstructCall([i \in 1..n |-> LegOf(i, f[i])], c)

GroupOpportunities ==
    /\ pc = "start"
    /\ args.op = "group_opportunities"
    /\ Finish(Value(group_opportunities(args.min_opportunities, args.max_opportunities,
                                        args.opportunities_df, args.now)))
    /\ UNCHANGED <<args, sigma, iter, sim>>

CalculateHedge ==
    /\ pc = "start"
    /\ args.op = "calculate_hedge"
    /\ Finish(Value(calculate_hedge(args.opportunity, args.polymarket_allocation)))
    /\ UNCHANGED <<args, sigma, iter, sim>>

BuildHedgeOrders ==
    /\ pc = "start"
    /\ args.op = "build_hedge_orders"
    /\ Finish(Value(build_hedge_orders(args.opportunities, args.net_amount_usdc)))
    /\ UNCHANGED <<args, sigma, iter, sim>>

ConstructStrategy ==
    /\ pc = "start"
    /\ args.op = "construct_strategy"
    /\ Finish(construct_strategy(args.opportunity_group, args.strategy_id, args.net_amount_usdc,
                                 args.fee_bps, args.maturity_days, args.now))
    /\ UNCHANGED <<args, sigma, iter, sim>>

InitScanner == ScannerCall /\ pc = "start" /\ ret = Value(0) /\ sigma = 0 /\ iter = 0 /\ sim = NoSim

NextScanner ==
    \/ GroupOpportunities
    \/ CalculateHedge
    \/ BuildHedgeOrders
    \/ ConstructStrategy

SpecScanner == InitScanner /\ [][NextScanner]_vars

-----------------------------------------------------------------------------
(* scanner/strategy_scanner.py: StrategyScanner.scan_and_deploy, the pass   *)
(* of its loop for one asset.  The locals of the pass are kept in ret; the  *)
(* opportunities and the summary it logs are left out.                      *)

\* The markets fetched for BTC: the barrier at 110 above or below the current
\* price, offered at prices from 0 to 1, and a market without a volatility
FetchedKinds ==
    [asset : {"BTC"}, current_price : {100, 120}, target_price : {110}, days_to_expiry : {30},
     volatility : {(55 * Scale) \div 100},
     market_price : {0, (7 * Scale) \div 100, (95 * Scale) \div 100, Scale},
     maturity_date : {720}]
      \cup [asset : {"BTC"}, current_price : {100}, target_price : {110}, days_to_expiry : {30},
            market_price : {Scale \div 2}, maturity_date : {720}]

FetchedMarket(i, kind) == DictUpdate(kind, [market_id |-> i])

\* The markets that fetch_active_markets returned
PipelineCall ==
    \E n \in 0..MaxMarkets : \E f \in [1..n -> FetchedKinds] :
        args = [op |-> "scan_and_deploy", now |-> 60,
                markets |-> [i \in 1..n |-> FetchedMarket(i, f[i])]]

IsPipeline == args.op = "scan_and_deploy"

\* if not markets: continue; markets_analysis = batch_price_markets(markets)
PipelinePrice ==
    /\ pc = "start"
    /\ IsPipeline
    /\ IF args.markets = <<>>
       THEN Finish(Value(<<>>))
       ELSE ret' = Value(batch_price_markets(risk_free_rate, args.markets)) /\ pc' = "priced"
    /\ UNCHANGED <<args, sigma, iter, sim>>

\* What the scan leads to: continue for an empty frame
AfterScan(opportunities_df) ==
    IF opportunities_df = <<>>
    THEN Finish(Value(<<>>))
    ELSE ret' = Value(opportunities_df) /\ pc' = "scanned"

\* opportunities_df = self.inefficiency_detector.scan_markets(markets_analysis),
\* the detector made with min_edge_threshold = 0.10
PipelineScan ==
    /\ pc = "priced"
    /\ IsPipeline
    /\ AfterScan(scan_markets(Scale \div 10, ret.val))
    /\ UNCHANGED <<args, sigma, iter, sim>>

\* opportunity_groups = self.strategy_grouper.group_opportunities(opportunities_df),
\* the grouper made with 1 to 4 opportunities: the whole frame is grouped
PipelineGroup ==
    /\ pc = "scanned"
    /\ IsPipeline
    /\ ret' = Value([opportunity_groups |-> group_opportunities(1, 4, ret.val, args.now),
                      deployed_strategies |-> <<>>])
    /\ iter' = 0
    /\ pc' = "grouped"
    /\ UNCHANGED <<args, sigma, sim>>

\* What construct_strategy leads to: the exception ends the pass for the asset
AfterConstruct(strategy_def) ==
    IF strategy_def.exc # "none"
    THEN Finish(Value(ret.val.deployed_strategies))
    ELSE /\ ret' = Value(DictUpdate(ret.val, [strategy_def |-> strategy_def.val]))
         /\ pc' = "constructed"

\* strategy_def = construct_strategy(opportunity_group, strategy_id_start + group_idx, 1000)
PipelineConstruct ==
    /\ pc = "grouped"
    /\ IsPipeline
    /\ iter < Len(ret.val.opportunity_groups)
    /\ AfterConstruct(construct_strategy(ret.val.opportunity_groups[iter + 1], 1 + iter,
                                          1000 * Scale, 200, 30, args.now))
    /\ UNCHANGED <<args, sigma, iter, sim>>

\* await deploy_strategy(strategy_def): the transaction goes through and the
\* strategy is appended, or it fails and the loop continues
PipelineDeploy ==
    /\ pc = "constructed"
    /\ IsPipeline
    /\ \E deployed \in BOOLEAN :
          ret' = Value([ret.val EXCEPT !.deployed_strategies =
                            IF deployed THEN Append(@, ret.val.strategy_def) ELSE @])
    /\ iter' = iter + 1
    /\ pc' = "grouped"
    /\ UNCHANGED <<args, sigma, sim>>

\* The end of the loop over the groups
PipelineReturn ==
    /\ pc = "grouped"
    /\ IsPipeline
    /\ iter = Len(ret.val.opportunity_groups)
    /\ Finish(Value(ret.val.deployed_strategies))
    /\ UNCHANGED <<args, sigma, iter, sim>>

InitPipeline == PipelineCall /\ pc = "start" /\ ret = Value(0) /\ sigma = 0 /\ iter = 0 /\ sim = NoSim

NextPipeline ==
    \/ PipelinePrice
    \/ PipelineScan
    \/ PipelineGroup
    \/ PipelineConstruct
    \/ PipelineDeploy
    \/ PipelineReturn

SpecPipeline == InitPipeline /\ [][NextPipeline]_vars

-----------------------------------------------------------------------------
(* analysis/verify_math.py: simulate_hedged_pnl                            *)
(*                                                                         *)
(* Here the prices S0, H and St are fixed-point numbers too.  numpy's      *)
(* global generator is a state that every draw reads and advances; the     *)
(* caller seeds it before a run.                                           *)

\* The standard normal deviates the generator yields, by its state
Deviates ==
    <<0, Scale, -Scale, 2 * Scale, -Scale, Scale, 0, -(2 * Scale),
      Scale, Scale, -Scale, 0, 2 * Scale, -Scale, Scale, -(2 * Scale)>>

\* the draw, mutated: it depends on which run it is, not on the generator's state alone
normal_off_stream(rng, scale) == MulFx(Deviates[((rng + sim.run) % 16) + 1], scale)

\* np.random.normal(0, scale), read off the generator's state
normal(rng, scale) == MulFx(Deviates[rng + 1], scale)

\* The generator's state after a draw
Advance(rng) == (5 * rng + 3) % 16

\* verify_math.calculate_delta, for the values of its locals p_up and p_down
vm_DeltaOf(p_up, p_down, epsilon) ==
    IF p_up.exc # "none" THEN p_up
    ELSE IF p_down.exc # "none" THEN p_down
    ELSE Value(DivFx(p_up.val - p_down.val, 2 * epsilon))

vm_calculate_delta(S0, H, T, sig, r, mu, epsilon) ==
    vm_DeltaOf(vm_barrier_hit_probability(S0 + epsilon, H, T, sig, r, mu),
               vm_barrier_hit_probability(S0 - epsilon, H, T, sig, r, mu), epsilon)

\* dt = 1/365 and n_steps = int(T * 365)
DailyStep == DivFx(1, 365)

StepsOf(T) == TruncInt(T * 365)

\* St * np.exp((0 - 0.5 * sigma**2) * dt + sigma * dW)
GbmPrice(St, sig, dt, dW) ==
    MulFx(St, Exp(MulFx(0 - MulFx(Scale \div 2, MulFx(sig, sig)), dt) + MulFx(sig, dW)))

\* the running maximum, mutated: the current price
running_max_last(max_price, St) == St

\* max_price = max(max_price, St)
running_max(max_price, St) == Max(max_price, St)

\* The locals after the GBM step of the loop body
Stepped(s, St) ==
    [s EXCEPT !.rng = Advance(s.rng), !.St = St, !.max_price = running_max(s.max_price, St)]

\* An adjustment of the hedge that charges no fee
Adjusted_without_fee(s, new_delta, fee_rate) ==
    [s EXCEPT !.hedge_position = new_delta, !.rebalance_count = @ + 1]

\* The adjustment of the hedge to new_delta
Adjusted(s, new_delta, fee_rate) ==
    [s EXCEPT !.cumulative_fees = @ + MulFx(MulFx(fee_rate, Abs(new_delta - s.hedge_position)), s.St),
              !.hedge_position = new_delta,
              !.rebalance_count = @ + 1]

\* new_delta = calculate_delta(St, H, remaining_T, sigma) * num_shares
RebalanceTo(s, delta, num_shares, fee_rate) ==
    IF delta.exc # "none"
    THEN delta
    ELSE Value(Adjusted(s, MulFx(delta.val, num_shares), fee_rate))

\* if rebalance_freq and (step + 1) % rebalance_freq == 0: ... if remaining_T > 0: ...
Rebalanced(s, params, fee_rate, rebalance_freq, dt) ==
    IF rebalance_freq # 0 /\ (s.step + 1) % rebalance_freq = 0
          /\ params.T - (s.step + 1) * dt > 0
    THEN RebalanceTo(s, vm_calculate_delta(s.St, params.H, params.T - (s.step + 1) * dt,
                                           params.sigma, 0, 0, Scale),
                     params.num_shares, fee_rate)
    ELSE Value(s)

\* One pass of the inner loop
StepBody(s, params, fee_rate, rebalance_freq, dt) ==
    Rebalanced(Stepped(s, GbmPrice(s.St, params.sigma, dt, normal(s.rng, Sqrt(dt)))),
               params, fee_rate, rebalance_freq, dt)

\* The locals at the top of a path
PathStart(s, params, fee_rate) ==
    [s EXCEPT !.step = 0, !.St = params.S0, !.max_price = params.S0,
              !.hedge_position = params.hedge_size_asset,
              !.cumulative_fees = MulFx(fee_rate, params.cost_usd)
                                    + MulFx(MulFx(fee_rate, params.hedge_size_asset), params.S0),
              !.rebalance_count = 0]

\* The final settlement of a path, for its hit flag and the PNL of its bet
PathResult(s, params, hit, bet_pnl) ==
    [path |-> s.path, hit |-> hit, final_price |-> s.St, max_price |-> s.max_price,
     bet_pnl |-> bet_pnl,
     hedge_pnl |-> MulFx(-s.hedge_position, s.St - params.S0),
     fees |-> s.cumulative_fees,
     total_pnl |-> bet_pnl + MulFx(-s.hedge_position, s.St - params.S0) - s.cumulative_fees,
     rebalances |-> s.rebalance_count]

BetPnl(params, hit) ==
    IF hit THEN MulFx(params.num_shares, Scale) - params.cost_usd ELSE -params.cost_usd

Settled(s, params) ==
    PathResult(s, params, s.max_price >= params.H, BetPnl(params, s.max_price >= params.H))

\* The statistics the caller takes of the DataFrame: the mean and the standard
\* deviation of total_pnl, and the mean of hit
MeanPnl(results) ==
    SumOver([k \in DOMAIN results |-> results[k].total_pnl], Len(results)) \div Len(results)

SquaredDeviations(results, mean) ==
    SumOver([k \in DOMAIN results |-> MulFx(results[k].total_pnl - mean, results[k].total_pnl - mean)],
            Len(results))

StdPnl(results) ==
    IF Len(results) < 2 THEN 0
    ELSE 100 * SqrtSearch(SquaredDeviations(results, MeanPnl(results)) \div (Len(results) - 1),
                          0, 46340)

HitRate(results) ==
    DivFx(Cardinality({k \in DOMAIN results : results[k].hit}), Len(results))

Statistics(results) ==
    [mean |-> MeanPnl(results), std |-> StdPnl(results), hit_rate |-> HitRate(results)]

-----------------------------------------------------------------------------
(* The calls of the simulation: the caller seeds the generator, runs       *)
(* simulate_hedged_pnl, seeds the generator again and runs it again with   *)
(* the same arguments                                                      *)

\* The largest number of paths drawn
MaxPaths == 2

Seeds == {0, 3, 7}

\* A bet of $10 at $0.10 a share, hedged with half a unit of the asset at $100,
\* over 2 or 3 days
SimParams ==
    [S0 : {100 * Scale}, H : {105 * Scale, 110 * Scale}, T : {55, 83}, sigma : {Scale \div 2},
     num_shares : {100 * Scale}, cost_usd : {10 * Scale}, hedge_size_asset : {Scale \div 2}]

SimulationArgs ==
    [op : {"simulate_hedged_pnl"}, params : SimParams, num_paths : 1..MaxPaths,
     fee_rate : {Scale \div 1000}, rebalance_freq : {0, 1, 2}, seed : Seeds, seed_again : Seeds]

IsSimulation == args.op = "simulate_hedged_pnl"

\* simulate_hedged_pnl up to the loop: results = []
SimulateEnter ==
    /\ pc = "start"
    /\ IsSimulation
    /\ sim' = [sim EXCEPT !.path = 0, !.results = <<>>]
    /\ pc' = "loop"
    /\ UNCHANGED <<args, ret, sigma, iter>>

\* The top of the outer loop body: the locals of a new path
SimulatePathStart ==
    /\ pc = "loop"
    /\ IsSimulation
    /\ sim.path < args.num_paths
    /\ sim' = PathStart(sim, args.params, args.fee_rate)
    /\ pc' = "step"
    /\ UNCHANGED <<args, ret, sigma, iter>>

\* What a pass of the inner loop leads to: the exception, or the next pass
AfterStep(stepped) ==
    IF stepped.exc # "none"
    THEN Finish(Raise(stepped.exc)) /\ UNCHANGED sim
    ELSE sim' = [stepped.val EXCEPT !.step = @ + 1] /\ UNCHANGED <<pc, ret>>

\* One pass of the inner loop
SimulateStep ==
    /\ pc = "step"
    /\ IsSimulation
    /\ sim.step < StepsOf(args.params.T)
    /\ AfterStep(StepBody(sim, args.params, args.fee_rate, args.rebalance_freq, DailyStep))
    /\ UNCHANGED <<args, sigma, iter>>

\* The final settlement of the path, and results.append
SimulateSettle ==
    /\ pc = "step"
    /\ IsSimulation
    /\ sim.step >= StepsOf(args.params.T)
    /\ sim' = [sim EXCEPT !.results = Append(@, Settled(sim, args.params)), !.path = @ + 1]
    /\ pc' = "loop"
    /\ UNCHANGED <<args, ret, sigma, iter>>

\* return pd.DataFrame(results)
SimulateReturn ==
    /\ pc = "loop"
    /\ IsSimulation
    /\ sim.path >= args.num_paths
    /\ Finish(Value(sim.results))
    /\ UNCHANGED <<args, sigma, iter, sim>>

\* The caller keeps the first run's DataFrame, seeds the generator again and
\* calls simulate_hedged_pnl again
SimulateAgain ==
    /\ pc = "done"
    /\ IsSimulation
    /\ sim.run = 1
    /\ sim' = [sim EXCEPT !.run = 2, !.rng = args.seed_again, !.first = ret.val]
    /\ pc' = "start"
    /\ ret' = Value(0)
    /\ UNCHANGED <<args, sigma, iter>>

InitSimulation ==
    /\ args \in SimulationArgs
    /\ pc = "start" /\ ret = Value(0) /\ sigma = 0 /\ iter = 0
    /\ sim = [NoSim EXCEPT !.run = 1, !.rng = args.seed]

NextSimulation ==
    \/ SimulateEnter
    \/ SimulatePathStart
    \/ SimulateStep
    \/ SimulateSettle
    \/ SimulateReturn
    \/ SimulateAgain

SpecSimulation == InitSimulation /\ [][NextSimulation]_vars

-----------------------------------------------------------------------------
(* The whole library: one call of any of its functions                     *)

Init == InitPricing \/ InitDetector \/ InitSizer \/ InitScanner \/ InitPipeline \/ InitSimulation

Next == NextPricing \/ NextDetector \/ NextSizer \/ NextScanner \/ NextPipeline \/ NextSimulation

Spec == Init /\ [][Next]_vars

-----------------------------------------------------------------------------
(* Properties of the pricing engine                                        *)

IsHitCall == args.op \in {"barrier_hit_probability", "verify_math.barrier_hit_probability"}

\* C1: with the spot at or above the barrier, S0 >= H, and any T > 0 and
\* sigma > 0, barrier_hit_probability returns exactly 1, in the class-based
\* engine and in the module-level function alike.
C1_BreachedBarrierIsCertain ==
    (IsHitCall /\ pc # "start" /\ args.S0 >= args.H /\ args.T > 0 /\ args.sigma > 0)
        => (pc = "done" /\ ret = Value(Scale))

\* C1's case: the engine was called with the spot above the barrier and has returned
C1_Witness ==
    /\ args.op = "barrier_hit_probability"
    /\ pc = "done"
    /\ args.S0 > args.H /\ args.T > 0 /\ args.sigma > 0
    /\ ret.val = Scale

\* C2: for S0 > 0, H > S0, T > 0 and sigma > 0 (rate and drift 0) the value
\* returned by barrier_hit_probability is a probability, within [0, 1].
C2_HitProbabilityInUnitInterval ==
    (IsHitCall /\ pc # "start" /\ 0 < args.S0 /\ args.S0 < args.H /\ args.T > 0 /\ args.sigma > 0)
        => (pc = "done" /\ 0 <= ret.val /\ ret.val <= Scale)

\* A record batch_price_markets has to price: every required key, a positive
\* volatility and a positive time to expiry
Priceable(m) ==
    /\ PricingKeys \subseteq DOMAIN m
    /\ m["volatility"] > 0
    /\ m["days_to_expiry"] > 0

\* out is a priced copy of the record m
PricedCopyOf(out, m) ==
    /\ DOMAIN m \subseteq DOMAIN out
    /\ \A k \in DOMAIN m : out[k] = m[k]
    /\ "theoretical_price" \in DOMAIN out

\* C4: batch_price_markets leaves out every record with a non-positive
\* volatility, a non-positive time to expiry or a missing required key, and
\* returns one priced result, in input order, for every other record.
C4_BatchKeepsExactlyThePriceable ==
    (args.op = "batch_price_markets" /\ pc # "start")
        => LET wanted == SelectSeq(args.markets, Priceable)
           IN  /\ pc = "done"
               /\ Len(ret.val) = Len(wanted)
               /\ \A i \in 1..Len(wanted) : PricedCopyOf(ret.val[i], wanted[i])

\* C5: calculate_implied_volatility, for S0 < H, T > 0, a market price in
\* (0, 1) and an initial guess in [0.01, 5.0], ends after at most 100 passes
\* without raising, and returns an estimate within [0.01, 5.0].
C5_ImpliedVolReturnsAnEstimate ==
    (args.op = "calculate_implied_volatility" /\ pc \notin {"start", "loop"})
        => /\ pc = "done"
           /\ iter <= max_iterations
           /\ Scale \div 100 <= ret.val /\ ret.val <= 5 * Scale

-----------------------------------------------------------------------------
(* Properties of the inefficiency detector                                 *)

\* C3: calculate_edge, for a market price > 0 and the threshold t (0.10 for
\* 10%), returns BET_YES exactly when the edge percentage is above t * 100,
\* BET_NO exactly when it is below -t * 100, and SKIP otherwise; for a market
\* price <= 0 it returns (0, 0, INVALID).
C3_EdgeThresholdInPercent ==
    (args.op = "calculate_edge" /\ pc # "start")
        => /\ pc = "done"
           /\ IF args.market_price <= 0
              THEN ret.val = [edge_absolute |-> 0, edge_percentage |-> 0,
                              recommendation |-> "INVALID"]
              ELSE /\ ret.val.recommendation \in {"BET_YES", "BET_NO", "SKIP"}
                   /\ ret.val.recommendation = "BET_YES"
                        <=> ret.val.edge_percentage > args.min_edge_threshold * 100
                   /\ ret.val.recommendation = "BET_NO"
                        <=> ret.val.edge_percentage < -(args.min_edge_threshold * 100)

-----------------------------------------------------------------------------
(* Properties of the position sizer                                        *)

C7_KellyFractionInUnitInterval ==
    /\ (args.op = "calculate_kelly_fraction" /\ pc # "start")
          => (pc = "done" /\ 0 <= ret.val /\ ret.val <= Scale)
    /\ (args.op = "size_position" /\ pc = "done")
          => (0 <= ret.val.kelly_fraction /\ ret.val.kelly_fraction <= Scale)

\* C7's case: a losing bet (p b < 1 - p) whose fraction came out as 0, not negative
C7_Witness ==
    /\ args.op = "calculate_kelly_fraction"
    /\ pc = "done"
    /\ args.win_probability = Scale \div 10
    /\ args.payout_ratio = 2 * Scale
    /\ ret.val = 0

\* The market price lies in (0, 1), as the data model has it
QuotedInside(opportunity) ==
    0 < opportunity.market_price /\ opportunity.market_price < Scale

\* C8: for every opportunity and capital >= 0, size_position yields
\* risk_adjusted_fraction = min(kelly_fraction * multiplier, cap), never above
\* the cap, and allocation = capital * risk_adjusted_fraction, never above
\* capital * cap.
C8_RiskAdjustedFractionCapped ==
    (args.op = "size_position" /\ pc # "start")
        => /\ QuotedInside(args.opportunity) => pc = "done"
           /\ pc = "done"
                 => /\ ret.val.risk_adjusted_fraction
                          = Min(MulFx(ret.val.kelly_fraction, args.kelly_fraction),
                                args.max_position_size)
                    /\ ret.val.risk_adjusted_fraction <= args.max_position_size
                    /\ ret.val.allocation
                          = MulFx(args.total_capital, ret.val.risk_adjusted_fraction)
                    /\ ret.val.allocation
                          <= MulFx(args.total_capital, args.max_position_size)

\* C8's case: a bet whose scaled Kelly fraction is above the cap was held at the cap
C8_Witness ==
    /\ args.op = "size_position"
    /\ pc = "done"
    /\ args.total_capital > 0
    /\ MulFx(ret.val.kelly_fraction, args.kelly_fraction) > args.max_position_size
    /\ ret.val.risk_adjusted_fraction = args.max_position_size
    /\ ret.val.allocation = MulFx(args.total_capital, args.max_position_size)

\* C9: after optimize_portfolio, for positions with non-negative allocations
\* and a total capital >= 0, the allocations of the positions returned sum to
\* no more than the total capital.
C9_AllocationsWithinCapital ==
    (/\ args.op = "optimize_portfolio"
     /\ pc # "start"
     /\ args.total_capital >= 0
     /\ \A i \in 1..Len(args.positions) : args.positions[i].allocation >= 0)
        => (pc = "done" /\ TotalAllocation(ret.val) <= args.total_capital)

\* C9's case: the positions kept asked for more than the capital and were scaled down
C9_Witness ==
    /\ args.op = "optimize_portfolio"
    /\ pc = "done"
    /\ args.total_capital > 0
    /\ TotalAllocation(AtLeast(args.positions, args.min_allocation)) > args.total_capital
    /\ Len(ret.val) >= 2
    /\ TotalAllocation(ret.val) <= args.total_capital
    /\ TotalAllocation(ret.val) > 0

\* C10: size_position returns the zero position (allocation, shares, Kelly
\* fraction, risk-adjusted fraction and expected value all 0) for every
\* opportunity whose recommendation is neither BET_YES nor BET_NO, whatever
\* its prices and the capital.
C10_NoBetNoPosition ==
    (/\ args.op = "size_position"
     /\ pc # "start"
     /\ args.opportunity.recommendation \notin {"BET_YES", "BET_NO"})
        => /\ pc = "done"
           /\ ret.val.allocation = 0
           /\ ret.val.shares = 0
           /\ ret.val.kelly_fraction = 0
           /\ ret.val.risk_adjusted_fraction = 0
           /\ ret.val.expected_value = 0

\* C10's case: a SKIP with a mispriced market and capital at hand got nothing
C10_Witness ==
    /\ args.op = "size_position"
    /\ pc = "done"
    /\ args.opportunity.recommendation = "SKIP"
    /\ args.opportunity.theoretical_price < args.opportunity.market_price
    /\ QuotedInside(args.opportunity)
    /\ args.total_capital > 0
    /\ ret.val.allocation = 0

-----------------------------------------------------------------------------
(* Properties of the strategy scanner                                      *)

IsGrouped == args.op = "group_opportunities" /\ pc = "done"

\* The members of the returned groups, as pairs (group, place in the group)
Members == {<<g, k>> : g \in DOMAIN ret.val, k \in 1..MaxOpps} \cap
           UNION {{<<g, k>> : k \in DOMAIN ret.val[g]} : g \in DOMAIN ret.val}

MemberAt(m) == ret.val[m[1]][m[2]]

\* C11: every group returned by group_opportunities holds opportunities of a
\* single asset, whatever the order of the input.
C11_GroupsHoldOneAsset ==
    (args.op = "group_opportunities" /\ pc # "start")
        => /\ pc = "done"
           /\ \A m1 \in Members, m2 \in Members :
                 m1[1] = m2[1] => MemberAt(m1).asset = MemberAt(m2).asset

\* C11's case: rows of two assets were grouped and some group has two members
C11_Witness ==
    /\ IsGrouped
    /\ \E i, j \in DOMAIN args.opportunities_df :
          args.opportunities_df[i].asset # args.opportunities_df[j].asset
    /\ \E g \in DOMAIN ret.val : Len(ret.val[g]) >= 2

\* C12: no group returned by group_opportunities holds two opportunities whose
\* maturity timestamps differ by more than the tolerance of 1 day.
C12_GroupsWithinOneDay ==
    IsGrouped
        => \A m1 \in Members, m2 \in Members :
              m1[1] = m2[1]
                 => Abs(MaturityOf(MemberAt(m1), args.now) - MaturityOf(MemberAt(m2), args.now))
                        <= HoursPerDay

\* The groups that hold row i of the input
GroupsOf(i) == {m[1] : m \in {x \in Members : MemberAt(x).market_id = i}}

\* C13: two opportunities of the same asset with maturities within 1 day of
\* each other end up in the same group, unless that group has reached the size
\* cap.
C13_CompatibleNeverSplit ==
    IsGrouped
        => \A i, j \in DOMAIN args.opportunities_df :
              LET a == args.opportunities_df[i]
                  b == args.opportunities_df[j]
              IN  (i # j /\ a.asset = b.asset
                     /\ Abs(MaturityOf(a, args.now) - MaturityOf(b, args.now)) <= HoursPerDay)
                    => \/ GroupsOf(i) \cap GroupsOf(j) # {}
                       \/ \E g \in GroupsOf(i) \cup GroupsOf(j) :
                             Len(ret.val[g]) >= args.max_opportunities

\* C14: no opportunity is in two groups or twice in one group, and with the
\* default minimum of 1 every input opportunity is in exactly one group.
C14_EachOpportunityOnce ==
    IsGrouped
        => \A i \in DOMAIN args.opportunities_df :
              LET places == {m \in Members : MemberAt(m).market_id = i}
              IN  /\ Cardinality(places) <= 1
                  /\ args.min_opportunities = 1 => Cardinality(places) = 1

\* C14's case: several groups came out, one of them with a member added by the inner loop
C14_Witness ==
    /\ IsGrouped
    /\ args.min_opportunities = 1
    /\ Len(ret.val) >= 2
    /\ \E g \in DOMAIN ret.val : Len(ret.val[g]) >= 2

\* C15: group_opportunities on an empty opportunity set returns an empty list,
\* and construct_strategy on an empty opportunity group returns a result
\* instead of raising.
C15_EmptyInputNeverRaises ==
    /\ (args.op = "group_opportunities" /\ args.opportunities_df = <<>> /\ pc # "start")
          => (pc = "done" /\ ret.val = <<>>)
    /\ (args.op = "construct_strategy" /\ args.opportunity_group = <<>> /\ pc # "start")
          => pc = "done"

\* C16: calculate_hedge returns a SHORT hedge (isLong false) for BET_YES and a
\* LONG hedge (isLong true) for BET_NO, and its allocation_pct is 0.3 whatever
\* the opportunity and the allocation passed in.
C16_HedgeOpposesTheBet ==
    (args.op = "calculate_hedge" /\ pc # "start")
        => /\ pc = "done"
           /\ args.opportunity.recommendation = "BET_YES"
                 => (ret.val.isLong = FALSE /\ ret.val.direction = "SHORT")
           /\ args.opportunity.recommendation = "BET_NO"
                 => (ret.val.isLong = TRUE /\ ret.val.direction = "LONG")
           /\ ret.val.allocation_pct = (3 * Scale) \div 10

\* C16's case: a BET_YES opportunity with a positive allocation was hedged SHORT
C16_Witness ==
    /\ args.op = "calculate_hedge"
    /\ pc = "done"
    /\ args.opportunity.recommendation = "BET_YES"
    /\ args.polymarket_allocation > 0
    /\ ret.val.isLong = FALSE

IsConstructed == args.op = "construct_strategy" /\ pc = "done"

C20_HedgeFollowsTheLegNotional ==
    /\ IsConstructed
          => /\ Len(ret.val.hedgeOrders) = Len(args.opportunity_group)
             /\ \A k \in DOMAIN args.opportunity_group :
                   /\ ret.val.hedgeOrders[k].asset = args.opportunity_group[k].asset
                   /\ ret.val.hedgeOrders[k].amount
                         = MulFx(MulDiv(args.net_amount_usdc,
                                        ret.val.polymarketOrders[k].notionalBps, 10000),
                                 hedge_allocation_pct) * (1000000 \div Scale)
    /\ (args.op = "build_hedge_orders" /\ pc = "done")
          => ret.val.total_hedge_allocation * (1000000 \div Scale)
                = SumOver([k \in DOMAIN ret.val.hedge_orders |-> ret.val.hedge_orders[k].amount],
                          Len(ret.val.hedge_orders))

-----------------------------------------------------------------------------
(* Properties of the simulation                                            *)

SecondRunDone == IsSimulation /\ sim.run = 2 /\ pc = "done"

C18_RunningMaximum ==
    /\ [](IsSimulation /\ pc = "step"
            => (sim.max_price >= args.params.S0 /\ sim.max_price >= sim.St))
    /\ [](IsSimulation
            => \A k \in DOMAIN sim.results :
                  sim.results[k].hit <=> sim.results[k].max_price >= args.params.H)
    /\ [][(IsSimulation /\ pc = "step" /\ pc' = "step") => sim'.max_price >= sim.max_price]_vars

\* C18's case: two paths were settled, one that hit the barrier and ended below
\* its running maximum, and one that never rose above S0
C18_Witness ==
    /\ IsSimulation
    /\ pc = "loop"
    /\ Len(sim.results) = 2
    /\ \E k \in DOMAIN sim.results :
          /\ sim.results[k].hit
          /\ sim.results[k].max_price > sim.results[k].final_price
    /\ \E k \in DOMAIN sim.results :
          /\ ~sim.results[k].hit
          /\ sim.results[k].max_price = args.params.S0

-----------------------------------------------------------------------------
(* Further properties of the inefficiency detector                         *)

\* Row is one of the rows of the frame
InFrame(row, frame) == \E k \in DOMAIN frame : frame[k] = row

\* C26: for every record produced by analyze_market / scan_markets with a
\* market price > 0 the three classifications agree: the record is in the
\* 'undervalued' frame of get_opportunities iff its recommendation is BET_YES,
\* in the 'overvalued' frame iff its recommendation is BET_NO, and its
\* is_opportunity flag is true iff its recommendation is BET_YES or BET_NO.
C26_ClassificationsAgree ==
    (args.op = "scan_markets" /\ pc = "done")
        => \A k \in DOMAIN ret.val.all :
              ret.val.all[k].market_price > 0
                 => /\ InFrame(ret.val.all[k], ret.val.undervalued)
                          <=> ret.val.all[k].recommendation = "BET_YES"
                    /\ InFrame(ret.val.all[k], ret.val.overvalued)
                          <=> ret.val.all[k].recommendation = "BET_NO"
                    /\ ret.val.all[k].is_opportunity
                          <=> ret.val.all[k].recommendation \in {"BET_YES", "BET_NO"}

-----------------------------------------------------------------------------
(* Further properties of the position sizer                                *)

IsOptimized == args.op = "optimize_portfolio" /\ pc = "done"

\* C21: optimize_portfolio drops the positions below min_allocation: no
\* position in its output has an allocation smaller than min_allocation.
C21_NoPositionBelowMinimum ==
    IsOptimized
        => \A k \in DOMAIN ret.val : ret.val[k].allocation >= args.min_allocation

\* The places of the input positions that optimize_portfolio keeps
KeptPlaces == {i \in DOMAIN args.positions : args.positions[i].allocation >= args.min_allocation}

RECURSIVE SumOfAllocations(_)
SumOfAllocations(places) ==
    IF places = {} THEN 0
    ELSE LET i == CHOOSE x \in places : TRUE
         IN  args.positions[i].allocation + SumOfAllocations(places \ {i})

\* Position p with allocation, shares and expected value multiplied by factor
TimesFactor(p, factor) ==
    [p EXCEPT !.allocation = MulFx(p.allocation, factor), !.shares = MulFx(p.shares, factor),
              !.expected_value = MulFx(p.expected_value, factor)]

\* C22: optimize_portfolio returns the kept positions ordered by expected
\* value descending; when their total allocation exceeds the capital, the
\* allocation, shares and expected value of every kept position are multiplied
\* by the one factor capital / total, and otherwise no field of any position
\* is changed.
C22_SortedAndScaledAlike ==
    IsOptimized
        => /\ Len(ret.val) = Cardinality(KeptPlaces)
           /\ \A k \in 1..(Len(ret.val) - 1) :
                 ret.val[k].expected_value >= ret.val[k + 1].expected_value
           /\ \E place \in [DOMAIN ret.val -> KeptPlaces] :
                 /\ \A j, k \in DOMAIN ret.val : j # k => place[j] # place[k]
                 /\ \A k \in DOMAIN ret.val :
                       ret.val[k] =
                          IF SumOfAllocations(KeptPlaces) > args.total_capital
                          THEN TimesFactor(args.positions[place[k]],
                                           DivFx(args.total_capital, SumOfAllocations(KeptPlaces)))
                          ELSE args.positions[place[k]]

\* C22's case: two kept positions were put in the other order and scaled down
C22_Witness ==
    /\ IsOptimized
    /\ Len(args.positions) = 2
    /\ Len(ret.val) = 2
    /\ args.positions[1].expected_value < args.positions[2].expected_value
    /\ ret.val[1].allocation < args.positions[2].allocation
    /\ ret.val[1].shares < args.positions[2].shares
    /\ ret.val[1].expected_value < args.positions[2].expected_value
    /\ ret.val[1].expected_value > ret.val[2].expected_value

\* C25: an opportunity whose recommendation BET_YES or BET_NO is the one
\* calculate_edge gives for its theoretical price in [0, 1] and its market
\* price in (0, 1) is sized, with capital > 0 and a positive Kelly multiplier,
\* to a strictly positive allocation and a non-negative expected value.
C25_ActionableIsSized ==
    (/\ args.op = "size_position" /\ pc # "start"
     /\ args.opportunity.recommendation \in {"BET_YES", "BET_NO"}
     /\ args.opportunity.recommendation
           = calculate_edge(Scale \div 10, args.opportunity.theoretical_price,
                            args.opportunity.market_price).recommendation
     /\ args.opportunity.theoretical_price >= 0 /\ args.opportunity.theoretical_price <= Scale
     /\ args.opportunity.market_price > 0 /\ args.opportunity.market_price < Scale
     /\ args.total_capital > 0 /\ args.kelly_fraction > 0)
        => /\ pc = "done"
           /\ ret.val.allocation > 0
           /\ ret.val.expected_value >= 0

\* C30: calculate_portfolio_metrics never raises for a list of positions with
\* allocations >= 0: for an empty portfolio, and for a non-empty portfolio
\* whose total allocation is 0, such as the positions size_portfolio returns
\* for SKIP opportunities, it returns total allocation 0, expected return 0 and
\* diversification ratio 0.
C30_MetricsNeverRaise ==
    args.op = "size_portfolio"
        => /\ pc # "raised"
           /\ (pc = "done" /\ ret.val.total_allocation = 0)
                 => (ret.val.expected_return = 0 /\ ret.val.diversification_ratio = 0)

-----------------------------------------------------------------------------
(* Further properties of the strategy scanner                              *)

\* C28: for every non-empty opportunity group the expectedProfitBps of the
\* descriptor built by construct_strategy is a whole number in [0, 10000].
C28_ExpectedProfitIsUnsignedBps ==
    (IsConstructed /\ args.opportunity_group # <<>>)
        => (ret.val.expectedProfitBps >= 0 /\ ret.val.expectedProfitBps <= 10000)

\* C23: every group returned by group_opportunities has at least
\* min_opportunities and at most max_opportunities members, for every
\* configuration with 1 <= min_opportunities <= max_opportunities.
C23_GroupSizeWithinLimits ==
    (IsGrouped /\ 1 <= args.min_opportunities /\ args.min_opportunities <= args.max_opportunities)
        => \A g \in DOMAIN ret.val :
              /\ Len(ret.val[g]) >= args.min_opportunities
              /\ Len(ret.val[g]) <= args.max_opportunities

\* C29: for every group that group_opportunities returns, the descriptor
\* construct_strategy builds of it allocates at most 100% of the capital to
\* market orders: totalNotionalBps, the sum of the legs' notionalBps, never
\* exceeds 10000.
C29_NotionalWithinCapital ==
    IsGrouped
        => \A g \in DOMAIN ret.val :
              construct_strategy(ret.val[g], g, 1000 * Scale, 200, 30, args.now).val.totalNotionalBps
                 <= 10000

\* The opportunity that a market order of the descriptor under construction
\* was made of
LegOfOrder(k) == ret.val.opportunity_groups[iter + 1][k]

\* C27: in the pipeline scan_markets -> group_opportunities ->
\* construct_strategy as scan_and_deploy runs it, no strategy descriptor holds
\* a market order or a hedge order for an opportunity whose recommendation is
\* SKIP or INVALID: only BET_YES and BET_NO opportunities become legs.
C27_OnlyBetsBecomeLegs ==
    (IsPipeline /\ pc = "constructed")
        => \A k \in DOMAIN ret.val.strategy_def.polymarketOrders \cup DOMAIN ret.val.strategy_def.hedgeOrders :
              LegOfOrder(k).recommendation \in {"BET_YES", "BET_NO"}

-----------------------------------------------------------------------------
(* Further properties of the simulation                                    *)

\* The fees charged on entry: fee_rate * cost_usd + fee_rate * hedge_size_asset * S0
EntryFees ==
    MulFx(args.fee_rate, args.params.cost_usd)
        + MulFx(MulFx(args.fee_rate, args.params.hedge_size_asset), args.params.S0)

\* The hedge is left alone by a step
HedgeUntouched ==
    /\ sim'.hedge_position = sim.hedge_position
    /\ sim'.cumulative_fees = sim.cumulative_fees
    /\ sim'.rebalance_count = sim.rebalance_count

\* The hedge is set by step k to the delta of the new price over the time
\* that remains, times the shares, and the fee of the change is charged
HedgeReset(k) ==
    /\ sim'.hedge_position
          = MulFx(vm_calculate_delta(sim'.St, args.params.H, args.params.T - k * DailyStep,
                                     args.params.sigma, 0, 0, Scale).val,
                  args.params.num_shares)
    /\ sim'.cumulative_fees
          = sim.cumulative_fees
              + MulFx(MulFx(args.fee_rate, Abs(sim'.hedge_position - sim.hedge_position)), sim'.St)
    /\ sim'.rebalance_count = sim.rebalance_count + 1

====
